---- MODULE Spec2Model ----
(***************************************************************************)
(* ProxiedSocket (src/net/proxied_socket.cpp) as a state machine.          *)
(*                                                                         *)
(* Two threads act on one ProxiedSocket:                                   *)
(*   L  the event loop: it runs connect, the destructor and every callback *)
(*      the outbound proxy dispatches (on_successful_proxy_connection,     *)
(*      on_proxy_connection_failed, on_connected, on_read, on_close);      *)
(*   T  an application thread that calls set_callbacks concurrently.       *)
(* A handler is cut into steps exactly where it takes or releases          *)
(* m_socket_callbacks.mtx or calls into the application, so that every     *)
(* interleaving the mutex allows is a behaviour of the model.              *)
(*                                                                         *)
(* The outbound proxy is the environment: it keeps a table of the          *)
(* connections the socket opened (conns) and reports, for each connection, *)
(* at most one proxy success/failure while it connects, at most one        *)
(* on_connected, reads once connected, and one terminal on_close.          *)
(***************************************************************************)
EXTENDS Integers, FiniteSets, Sequences, TLC

\* ---------------------------------------------------------------- bounds
MaxConns == 2      \* connection slots of the proxies (ids are reused once released)
MaxGen == 2        \* callback sets the application ever supplies
CountCap == 2      \* the counting history variables saturate here
MaxCalls == 2      \* adjust_rtt calls made on one Upstream
MaxMillis == 2     \* largest elapsed time handed to adjust_rtt, milliseconds
MaxPrefLen == 13   \* longest prefix handed to the DNS64 synthesis, bytes
MaxTime == 2       \* readings of SteadyClock::now(), in units of the timeouts
MaxTimeout == 1    \* largest timeout handed to connect and set_timeout

\* ------------------------------------------------------------- constants
Proxies == {"P0", "P1"}          \* outbound proxies; P0 is Parameters::outbound_proxy
InitialProxy == "P0"
NoProxy == "none"                \* nullptr in FallbackInfo::proxy
NoId == 0                        \* std::nullopt in m_proxy_id
ConnIds == 1..MaxConns
Peer == "peer"                   \* ConnectParameters::peer
NoError == "none"                \* an empty Error<SocketError>
ProxyError == "proxy_err"        \* the error the proxy passes to on_close
ConnectError == "connect_err"    \* the error OutboundProxy::connect returns
CloseErrors == {NoError, ProxyError}
Shapes == {"full", "no_connected", "no_close"}   \* which handlers a callback set carries
NoTimeout == 0 - 1               \* std::nullopt in an optional<Micros> timeout
Timeouts == {NoTimeout} \cup (0..MaxTimeout)     \* ConnectParameters::timeout

\* Socket::Callbacks: a handler is 0 (nullptr) or the generation of its set
NullCallbacks == [on_connected |-> 0, on_read |-> 0, on_close |-> 0, arg |-> 0]
MkCallbacks(shape, g) ==
    [on_connected |-> IF shape = "no_connected" THEN 0 ELSE g,
     on_read |-> g,
     on_close |-> IF shape = "no_close" THEN 0 ELSE g,
     arg |-> g]

\* struct FallbackInfo behind the unique_ptr m_fallback_info (present = non-null)
NoInfo == [present |-> FALSE, proxy |-> NoProxy, peer |-> "nopeer",
           connect_timestamp |-> 0, timeout |-> NoTimeout]
NewInfo(peer, timestamp, timeout) ==
    [present |-> TRUE, proxy |-> NoProxy, peer |-> peer,
     connect_timestamp |-> timestamp, timeout |-> timeout]

\* one slot of a proxy's connection table
FreeConn == [st |-> "free", proxy |-> NoProxy, rep |-> "none", ans |-> NoProxy,
             via |-> "none", on_connected |-> FALSE, on_read |-> FALSE, on_close |-> FALSE]

\* the event loop thread's locals
Loc0 == [ev |-> NoId, cbx |-> NullCallbacks, error |-> NoError, orig |-> NoError,
         info |-> NoInfo, peer |-> "nopeer", sc_arg |-> NullCallbacks,
         sc_ret |-> "none", conn_ret |-> "none", exp |-> 0, fb |-> FALSE,
         timeout |-> NoTimeout, proxy0 |-> NoProxy, reconn |-> NoError,
         reported |-> FALSE]

VARIABLES
    m_proxy,          \* OutboundProxy *m_proxy
    m_proxy_id,       \* std::optional<uint32_t> m_proxy_id
    m_fallback_info,  \* std::unique_ptr<FallbackInfo>
    cb_val,           \* m_socket_callbacks.val
    mtx,              \* m_socket_callbacks.mtx: "free", or the thread holding it
    alive,            \* "alive", "destroyed" (destructor ran) or "crashed"
    conns,            \* the proxies' connection tables, by id
    pc,               \* where the event loop thread is
    loc,              \* its locals
    tpc,              \* where the application thread is inside set_callbacks
    tcbx,             \* the cbx argument of its set_callbacks
    tproxy,           \* the m_proxy it loaded at line 78-79
    gen,              \* callback sets supplied by the application so far
    lastAppGen,       \* history: generation the application stored last
    fallbacks,        \* history: switch-proxy-and-reconnect steps performed
    appConnected,     \* history: application on_connected invocations
    appClosed,        \* history: application on_close invocations
    lifecycle,        \* history: "none", "pending", "connected", "closed"
    optedOut,         \* history: the application supplied a set lacking a handler
    fbAfterConn,      \* history: a fallback was performed for a connected connection
    nullDeref,        \* history: a null FallbackInfo was dereferenced
    opened,           \* history: the id the last successful m_proxy->connect returned
    appCloseError,    \* history: the error the application's on_close received last
    now,              \* SteadyClock::now()
    origTimeout,      \* history: the timeout of the application's connect
    origStamp,        \* history: the clock when the application's connect returned
    misaddressed,     \* history: a proxy was called with an id it does not hold
    closedAgain,      \* history: close_connection was called for an id already closed
    \* Upstream (src/upstream/include/dns/upstream/upstream.h)
    opts,             \* the UpstreamOptions handed to the constructor
    m_options,        \* Upstream::m_options
    m_rtt,            \* Upstream::m_rtt, milliseconds
    m_rtt_guard,      \* Upstream::m_rtt_guard: NoThread, or the thread holding it
    upc,              \* where each thread using the Upstream is
    uloc,             \* its locals: elapsed, the m_rtt it read, what rtt() returned
    calls,            \* history: the elapsed values of the adjust_rtt calls, in call order
    \* DNS64 synthesis
    pref64,           \* the prefix argument, a sequence of bytes
    ipv4,             \* the IPv4 argument, four bytes
    synth             \* what the last call returned

upVars == <<opts, m_options, m_rtt, m_rtt_guard, upc, uloc, calls>>
dnsVars == <<pref64, ipv4, synth>>
extVars == <<upVars, dnsVars>>

socketVars == <<m_proxy, m_proxy_id, m_fallback_info, cb_val, mtx, alive, conns, pc, loc,
                tpc, tcbx, gen, lastAppGen, fallbacks, appConnected, appClosed, lifecycle,
                optedOut, fbAfterConn, nullDeref, opened, appCloseError, now, origTimeout,
                origStamp, tproxy, misaddressed, closedAgain>>

vars == <<socketVars, extVars>>

sockVars == <<m_proxy, m_proxy_id, m_fallback_info>>
histVars == <<fallbacks, appConnected, appClosed, lifecycle, fbAfterConn, nullDeref, opened,
              appCloseError>>
tVars == <<tpc, tcbx, tproxy>>
addrVars == <<misaddressed, closedAgain>>
timeVars == <<now, origTimeout, origStamp>>

Inc(n) == IF n < CountCap THEN n + 1 ELSE n

\* ProxiedSocket::ProxiedSocket, lines 7-11
SocketInit ==
    /\ m_proxy = InitialProxy
    /\ m_proxy_id = NoId
    /\ m_fallback_info = NoInfo
    /\ cb_val = NullCallbacks
    /\ mtx = "free"
    /\ alive = "alive"
    /\ conns = [c \in ConnIds |-> FreeConn]
    /\ pc = "idle"
    /\ loc = Loc0
    /\ tpc = "idle"
    /\ tcbx = NullCallbacks
    /\ gen = 0
    /\ lastAppGen = 0
    /\ fallbacks = 0
    /\ appConnected = 0
    /\ appClosed = 0
    /\ lifecycle = "none"
    /\ optedOut = FALSE
    /\ fbAfterConn = FALSE
    /\ nullDeref = FALSE
    /\ opened = NoId
    /\ appCloseError = NoError
    /\ now = 0
    /\ origTimeout = NoTimeout
    /\ origStamp = 0
    /\ tproxy = NoProxy
    /\ misaddressed = FALSE
    /\ closedAgain = FALSE

\* ------------------------------------------------ Upstream (upstream.h)
DEFAULT_TIMEOUT == 5000          \* Upstream::DEFAULT_TIMEOUT, milliseconds (line 82)
UThreads == {1, 2}               \* the threads calling adjust_rtt and rtt
NoThread == 0                    \* m_rtt_guard is not locked
ElapsedValues == (0 - MaxMillis)..MaxMillis
NoMillis == MaxMillis + 100      \* rtt() has not returned in this thread
NoOptions == [address |-> "no Upstream constructed"]

\* struct UpstreamOptions, lines 42-75
BaseOptions ==
    [address |-> "8.8.8.8:53", bootstrap |-> <<>>, timeout |-> 0,
     resolved_server_ip |-> "", id |-> 0, outbound_interface |-> "none",
     ignore_proxy_settings |-> FALSE]
TimeoutValues == {0, 1, DEFAULT_TIMEOUT}
OptionValues ==
    LET shapes == {BaseOptions,
                   [BaseOptions EXCEPT !.address = "tls://1.1.1.1"],
                   [BaseOptions EXCEPT !.bootstrap = <<"https://94.140.14.14">>],
                   [BaseOptions EXCEPT !.resolved_server_ip = "1.1.1.1"],
                   [BaseOptions EXCEPT !.id = 7],
                   [BaseOptions EXCEPT !.outbound_interface = "eth0"],
                   [BaseOptions EXCEPT !.ignore_proxy_settings = TRUE]}
    IN {[o EXCEPT !.timeout = t] : o \in shapes, t \in TimeoutValues}

ULoc0 == [elapsed |-> 0, old |-> 0, ret |-> NoMillis]

\* no Upstream exists
UpstreamIdle ==
    /\ opts = BaseOptions
    /\ m_options = NoOptions
    /\ m_rtt = 0
    /\ m_rtt_guard = NoThread
    /\ upc = [t \in UThreads |-> "idle"]
    /\ uloc = [t \in UThreads |-> ULoc0]
    /\ calls = <<>>

\* the caller has prepared the options of an Upstream to construct
UpstreamInit ==
    /\ opts \in OptionValues
    /\ m_options = NoOptions
    /\ m_rtt = 0
    /\ m_rtt_guard = NoThread
    /\ upc = [t \in UThreads |-> "idle"]
    /\ uloc = [t \in UThreads |-> ULoc0]
    /\ calls = <<>>

\* Millis is a signed 64-bit count; C++ division truncates toward zero
TruncDiv2(a) == IF a >= 0 THEN a \div 2 ELSE 0 - ((0 - a) \div 2)

\* variants with one piece of the code changed
TimeoutKept(o) == o                                  \* lines 97-99 missing
RttSum(old, elapsed) == old + elapsed                \* line 150 without "/ 2"
RttGuardIgnored == TRUE                              \* lock_guard missing

\* Upstream::Upstream, lines 97-99: a zero timeout becomes DEFAULT_TIMEOUT
EffectiveOptions(o) ==
    IF o.timeout = 0 THEN [o EXCEPT !.timeout = DEFAULT_TIMEOUT] ELSE o

\* adjust_rtt, line 150: (m_rtt + elapsed) / 2
AdjustedRtt(old, elapsed) == TruncDiv2(old + elapsed)

\* std::lock_guard lk(m_rtt_guard), lines 140 and 149: blocks while the mutex is held
RttGuardAvailable == m_rtt_guard = NoThread

\* Upstream::Upstream, lines 94-100
UpstreamCtor ==
    /\ m_options = NoOptions
    /\ m_options' = EffectiveOptions(opts)
    /\ m_rtt' = 0
    /\ UNCHANGED <<socketVars, dnsVars, opts, m_rtt_guard, upc, uloc, calls>>

\* a thread calls adjust_rtt(elapsed), line 148
AdjustRttCall(t, elapsed) ==
    /\ m_options # NoOptions
    /\ upc[t] = "idle"
    /\ Len(calls) < MaxCalls
    /\ upc' = [upc EXCEPT ![t] = "adj_lock"]
    /\ uloc' = [uloc EXCEPT ![t] = [ULoc0 EXCEPT !.elapsed = elapsed]]
    /\ calls' = Append(calls, elapsed)
    /\ UNCHANGED <<socketVars, dnsVars, opts, m_options, m_rtt, m_rtt_guard>>

\* line 149: take the mutex
AdjustRttLock(t) ==
    /\ upc[t] = "adj_lock"
    /\ RttGuardAvailable
    /\ m_rtt_guard' = t
    /\ upc' = [upc EXCEPT ![t] = "adj_read"]
    /\ UNCHANGED <<socketVars, dnsVars, opts, m_options, m_rtt, uloc, calls>>

\* line 150, right-hand side: read m_rtt
AdjustRttRead(t) ==
    /\ upc[t] = "adj_read"
    /\ uloc' = [uloc EXCEPT ![t].old = m_rtt]
    /\ upc' = [upc EXCEPT ![t] = "adj_write"]
    /\ UNCHANGED <<socketVars, dnsVars, opts, m_options, m_rtt, m_rtt_guard, calls>>

\* lines 150-151: store the new value; the lock_guard releases on return
AdjustRttWrite(t) ==
    /\ upc[t] = "adj_write"
    /\ m_rtt' = AdjustedRtt(uloc[t].old, uloc[t].elapsed)
    /\ m_rtt_guard' = NoThread
    /\ upc' = [upc EXCEPT ![t] = "idle"]
    /\ UNCHANGED <<socketVars, dnsVars, opts, m_options, uloc, calls>>

\* a thread calls rtt(), line 139
RttCall(t) ==
    /\ m_options # NoOptions
    /\ upc[t] = "idle"
    /\ uloc[t].ret = NoMillis
    /\ upc' = [upc EXCEPT ![t] = "rtt_lock"]
    /\ UNCHANGED <<socketVars, dnsVars, opts, m_options, m_rtt, m_rtt_guard, uloc, calls>>

\* line 140
RttLock(t) ==
    /\ upc[t] = "rtt_lock"
    /\ RttGuardAvailable
    /\ m_rtt_guard' = t
    /\ upc' = [upc EXCEPT ![t] = "rtt_read"]
    /\ UNCHANGED <<socketVars, dnsVars, opts, m_options, m_rtt, uloc, calls>>

\* lines 141-142: return m_rtt; the lock_guard releases
RttRead(t) ==
    /\ upc[t] = "rtt_read"
    /\ uloc' = [uloc EXCEPT ![t].ret = m_rtt]
    /\ m_rtt_guard' = NoThread
    /\ upc' = [upc EXCEPT ![t] = "idle"]
    /\ UNCHANGED <<socketVars, dnsVars, opts, m_options, m_rtt, calls>>

\* ------------------------------------------------ DNS64 synthesis (dns64.h)
Bytes16 == 0..15                 \* the byte indices of an IPv6 address
FillBytes == {5, 255}            \* values of the prefix bytes
UOctets == {0, 5}                \* values of the prefix byte at index 8, when it has one
Ipv4Values == {<<1, 2, 3, 4>>, <<192, 0, 0, 170>>, <<255, 255, 255, 255>>}
PrefLens == 0..MaxPrefLen
NoResult == [error |-> "not called", value |-> <<>>]

\* a prefix of the given length: fill bytes, with u at index 8
MkPrefix(len, fill, u) == [k \in 1..len |-> IF k - 1 = 8 THEN u ELSE fill]
PrefixValues == {MkPrefix(len, fill, u) : len \in PrefLens, fill \in FillBytes, u \in UOctets}

\* synthesize_ipv4_embedded_ipv6_address has not been called
Dns64Idle ==
    /\ pref64 = <<>>
    /\ ipv4 = <<1, 2, 3, 4>>
    /\ synth = NoResult

\* the caller holds a prefix and an IPv4 address
Dns64Init ==
    /\ pref64 \in PrefixValues
    /\ ipv4 \in Ipv4Values
    /\ synth = NoResult

\* variant: every length from 4 to 12 bytes taken for a Pref64 length
PrefLenInRange(len) == len \in 4..12

\* the allowed Pref64 lengths in bytes: 32, 40, 48, 56, 64 and 96 bits
IsPrefLenValid(len) == len \in {4, 5, 6, 7, 8, 12}

\* variant: the octets written from offset len on without the skip
OffsetNoSkip(len, i) == len + i

\* where the i-th IPv4 octet (i = 0..3) goes: from offset len on, stepping over
\* byte 8, the reserved "u" octet
Ipv4Offset(len, i) == IF len <= 8 /\ len + i >= 8 THEN len + i + 1 ELSE len + i

\* the 16-byte result is zeroed
Zeroed == [k \in Bytes16 |-> 0]

\* then the prefix is copied into bytes 0..len
WithPrefix(result, pref) ==
    [k \in Bytes16 |-> IF k < Len(pref) THEN pref[k + 1] ELSE result[k]]

\* then the four IPv4 octets are written
WithIpv4(result, len, ip4) ==
    [k \in Bytes16 |->
        IF \E i \in 0..3 : Ipv4Offset(len, i) = k
        THEN ip4[(CHOOSE i \in 0..3 : Ipv4Offset(len, i) = k) + 1]
        ELSE result[k]]

\* synthesize_ipv4_embedded_ipv6_address(pref64, ipv4)
SynthesizeIpv4EmbeddedIpv6Address(pref, ip4) ==
    IF ~IsPrefLenValid(Len(pref))
    THEN [error |-> "InvalidArgument", value |-> <<>>]
    ELSE [error |-> "none", value |-> WithIpv4(WithPrefix(Zeroed, pref), Len(pref), ip4)]

\* a call of the function; it may be made again on the same input
Synthesize ==
    /\ synth' = SynthesizeIpv4EmbeddedIpv6Address(pref64, ipv4)
    /\ UNCHANGED <<socketVars, upVars, pref64, ipv4>>

\* the caller goes on to another input
NextInput ==
    /\ synth # NoResult
    /\ pref64' \in PrefixValues
    /\ ipv4' \in Ipv4Values
    /\ synth' = NoResult
    /\ UNCHANGED <<socketVars, upVars>>

\* ProxiedSocket, Upstream and DNS64 before any use
Init == SocketInit /\ UpstreamIdle /\ Dns64Idle

\* ------------------------------------------------ the proxy's connection table
Registered(table, p, id) ==
    /\ id \in ConnIds
    /\ table[id].st # "free"
    /\ table[id].proxy = p

Live(table) == {c \in ConnIds : table[c].st # "free"}

\* OutboundProxy::close_connection(id) on proxy p
CloseConnection(table, p, id) ==
    IF Registered(table, p, id) THEN [table EXCEPT ![id] = FreeConn] ELSE table

\* OutboundProxy::set_callbacks(id, {..., cbx.on_connected != nullptr ? on_connected : nullptr, ...})
SetProxyCallbacks(table, p, id, cbx) ==
    IF Registered(table, p, id)
    THEN [table EXCEPT ![id].on_connected = (cbx.on_connected # 0),
                       ![id].on_read = (cbx.on_read # 0),
                       ![id].on_close = (cbx.on_close # 0)]
    ELSE table

\* OutboundProxy::connect with all five callbacks installed (lines 33-40)
FreeIds(table) == {c \in ConnIds : table[c].st = "free"}
NewId(table) == CHOOSE c \in FreeIds(table) : \A d \in FreeIds(table) : c <= d
OpenConnection(table, p, via) ==
    [table EXCEPT ![NewId(table)] =
        [st |-> "connecting", proxy |-> p, rep |-> "none", ans |-> NoProxy, via |-> via,
         on_connected |-> TRUE, on_read |-> TRUE, on_close |-> TRUE]]

\* ------------------------------------------------ pieces of the handlers
SetCallbacksError == "setcb_err"   \* the error OutboundProxy::set_callbacks returns

\* variants of the pieces below, each with one statement of the code left out
InfoKeptAfterConnected(info) == info          \* line 118 missing
InfoKeptAfterMove(info) == info               \* line 138 copying instead of moving
ProxyIdKept(id) == id                         \* line 140 reading without the exchange
AfterReconnectNoReturn(error) == "cl_get"     \* lines 154-156 missing
MutexKeptAfterSnapshot == "L"                 \* get_callbacks returning with the lock held
OriginalError(l) == l.orig                    \* line 146 not assigning to error
FallbackDropped(info, answer) == info         \* line 112 missing

\* on_connected, line 118: self->m_fallback_info.reset()
InfoAfterConnected(info) == NoInfo

\* on_close, line 138: std::move(self->m_fallback_info) leaves the member null
InfoAfterMove(info) == NoInfo

\* on_close, line 140: std::exchange(self->m_proxy_id, std::nullopt)
ExchangedProxyId(id) == NoId

\* on_close, lines 154-158: return when the re-connect succeeded, else go on to
\* propagate the error
AfterReconnect(error) == IF error = NoError THEN "idle" ELSE "cl_get"

\* get_callbacks, lines 93-96: the scoped_lock is released on return
MutexAfterSnapshot == "free"

\* on_proxy_connection_failed, line 112: m_fallback_info->proxy = Fallback::proxy
StoredFallback(info, answer) == [info EXCEPT !.proxy = answer]

\* on_close, lines 146 and 161: the error handed to the application's on_close
\* is the variable the re-connect's result was assigned to
PropagatedError(l) == l.error

\* on_close, lines 150-152: the timeout handed to the re-connect
RemainingTimeout(timeout, elapsed) ==
    IF timeout = NoTimeout THEN NoTimeout
    ELSE IF timeout - elapsed > 0 THEN timeout - elapsed ELSE 0

\* on_close, line 145: self->m_socket_callbacks.mtx.unlock() before connect
MutexAfterFallbackSnapshot == "free"

Idle == pc = "idle" /\ alive = "alive"

\* the generation a dispatch starting now must see: the one stored last, when no
\* set_callbacks call is in progress
ExpectedGen == IF tpc = "idle" THEN lastAppGen ELSE 0

\* ------------------------------------------------ set_callbacks, lines 69-91
\* lines 74-75 on the event loop thread: lock, start copying cbx into val
ScLock ==
    /\ pc = "sc_lock" /\ alive = "alive"
    /\ mtx = "free"
    /\ mtx' = "L"
    /\ cb_val' = [cb_val EXCEPT !.on_connected = loc.sc_arg.on_connected,
                                !.on_read = loc.sc_arg.on_read,
                                !.on_close = loc.sc_arg.on_close]
    /\ pc' = "sc_write"
    /\ UNCHANGED <<extVars, timeVars, addrVars, sockVars, alive, conns, loc, tVars, gen, lastAppGen, histVars, optedOut>>

\* lines 75-76: finish the copy, unlock
ScWrite ==
    /\ pc = "sc_write" /\ alive = "alive"
    /\ cb_val' = [cb_val EXCEPT !.arg = loc.sc_arg.arg]
    /\ mtx' = "free"
    /\ lastAppGen' = IF loc.conn_ret = "fallback" THEN lastAppGen ELSE loc.sc_arg.arg
    /\ pc' = "sc_proxy"
    /\ UNCHANGED <<extVars, timeVars, addrVars, sockVars, alive, conns, loc, tVars, gen, histVars, optedOut>>

\* lines 78-90: hand the shims to the proxy when an id is held; then return to
\* the caller (connect, line 27, or the application callback that called it)
ScProxy ==
    /\ pc = "sc_proxy" /\ alive = "alive"
    /\ LET held == m_proxy_id # NoId
           err == IF held /\ ~Registered(conns, m_proxy, m_proxy_id)
                  THEN SetCallbacksError ELSE NoError
           next == IF loc.sc_ret = "callback" THEN "idle"
                   ELSE IF err = NoError THEN "conn_proxy"
                   ELSE IF loc.conn_ret = "app" THEN "idle"
                   ELSE AfterReconnect(err)
       IN /\ conns' = IF held THEN SetProxyCallbacks(conns, m_proxy, m_proxy_id, loc.sc_arg)
                      ELSE conns
          /\ pc' = next
          /\ loc' = IF next = "idle" THEN Loc0
                    ELSE IF next = "cl_get" THEN [loc EXCEPT !.error = err, !.reconn = err]
                    ELSE loc
          /\ misaddressed' = (misaddressed \/ err # NoError)
    /\ UNCHANGED <<extVars, timeVars, closedAgain, sockVars, cb_val, mtx, alive, tVars, gen, lastAppGen, histVars, optedOut>>

\* the same three steps on the application thread
TScLock(shape) ==
    /\ tpc = "idle" /\ alive = "alive"
    /\ gen < MaxGen
    /\ mtx = "free"
    /\ mtx' = "T"
    /\ gen' = gen + 1
    /\ tcbx' = MkCallbacks(shape, gen + 1)
    /\ cb_val' = [cb_val EXCEPT !.on_connected = tcbx'.on_connected,
                                !.on_read = tcbx'.on_read,
                                !.on_close = tcbx'.on_close]
    /\ optedOut' = (optedOut \/ shape # "full")
    /\ tpc' = "sc_write"
    /\ UNCHANGED <<extVars, timeVars, addrVars, sockVars, alive, conns, pc, loc, tproxy, lastAppGen,
                   histVars>>

TScWrite ==
    /\ tpc = "sc_write" /\ alive = "alive"
    /\ cb_val' = [cb_val EXCEPT !.arg = tcbx.arg]
    /\ mtx' = "free"
    /\ lastAppGen' = tcbx.arg
    /\ tpc' = "sc_proxy"
    /\ UNCHANGED <<extVars, timeVars, addrVars, sockVars, alive, conns, pc, loc, tcbx, tproxy, gen,
                   histVars, optedOut>>

\* lines 78-79 on the application thread: m_proxy_id.has_value() and the object
\* expression m_proxy are read without the mutex, while the event loop thread
\* may be writing both (lines 45, 140 and 141)
TScProxy ==
    /\ tpc = "sc_proxy" /\ alive = "alive"
    /\ IF m_proxy_id # NoId
       THEN tpc' = "sc_call" /\ tproxy' = m_proxy /\ UNCHANGED tcbx
       ELSE tpc' = "idle" /\ tcbx' = NullCallbacks /\ UNCHANGED tproxy
    /\ UNCHANGED <<extVars, timeVars, addrVars, sockVars, cb_val, mtx, alive, conns, pc, loc, gen,
                   lastAppGen, histVars, optedOut>>

\* line 79: m_proxy_id.value() throws when on_close has emptied the optional
\* since line 78, which ends the process; else the shims go to a proxy, the one
\* loaded before or the one m_proxy names now (the reads race with lines 140-141)
TScCall ==
    /\ tpc = "sc_call" /\ alive = "alive"
    /\ IF m_proxy_id = NoId
       THEN /\ alive' = "crashed"
            /\ UNCHANGED <<conns, tpc, tcbx, tproxy, misaddressed>>
       ELSE \E p \in {tproxy, m_proxy} :
            /\ conns' = SetProxyCallbacks(conns, p, m_proxy_id, tcbx)
            /\ misaddressed' = (misaddressed \/ ~Registered(conns, p, m_proxy_id))
            /\ tpc' = "idle"
            /\ tcbx' = NullCallbacks
            /\ tproxy' = NoProxy
            /\ UNCHANGED alive
    /\ UNCHANGED <<extVars, timeVars, closedAgain, sockVars, cb_val, mtx, pc, loc, gen, lastAppGen,
                   histVars, optedOut>>

\* ------------------------------------------------ connect, lines 24-54
\* the application calls connect: line 27 enters set_callbacks(params.callbacks)
ConnectCall(shape, timeout) ==
    /\ Idle
    /\ gen < MaxGen
    /\ gen' = gen + 1
    /\ loc' = [Loc0 EXCEPT !.peer = Peer, !.sc_arg = MkCallbacks(shape, gen + 1),
                           !.sc_ret = "connect", !.conn_ret = "app",
                           !.timeout = timeout]
    /\ optedOut' = (optedOut \/ shape # "full")
    /\ pc' = "sc_lock"
    /\ UNCHANGED <<extVars, timeVars, addrVars, sockVars, cb_val, mtx, alive, conns, tVars, lastAppGen, histVars>>

\* the first connect of a socket (and a retry after a synchronous failure)
AppConnect ==
    \E shape \in Shapes, timeout \in Timeouts : lifecycle = "none" /\ ConnectCall(shape, timeout)

\* a connect issued on a socket that has connected before
AppConnectAgain ==
    \E shape \in Shapes, timeout \in Timeouts : lifecycle # "none" /\ ConnectCall(shape, timeout)

\* lines 33-53: m_proxy->connect; on error return it, else keep the id and
\* create FallbackInfo. Called by the application or by on_close (line 146).
ConnProxy(ok) ==
    /\ pc = "conn_proxy" /\ alive = "alive"
    /\ ok => FreeIds(conns) # {}
    /\ LET err == IF ok THEN NoError ELSE ConnectError
           next == IF loc.conn_ret = "app" THEN "idle" ELSE AfterReconnect(err)
       IN /\ IF ok
             THEN /\ conns' = OpenConnection(conns, m_proxy, loc.conn_ret)
                  /\ m_proxy_id' = NewId(conns)
                  /\ m_fallback_info' = NewInfo(loc.peer, now, loc.timeout)
                  /\ lifecycle' = "pending"
                  /\ opened' = NewId(conns)
                  /\ IF loc.conn_ret = "app"
                     THEN origTimeout' = loc.timeout /\ origStamp' = now
                     ELSE UNCHANGED <<origTimeout, origStamp>>
             ELSE UNCHANGED <<conns, m_proxy_id, m_fallback_info, lifecycle, opened,
                              origTimeout, origStamp>>
          /\ pc' = next
          /\ loc' = IF next = "idle" THEN Loc0
                    ELSE [loc EXCEPT !.error = err, !.reconn = err]
    /\ UNCHANGED <<extVars, addrVars, now, m_proxy, cb_val, mtx, alive, tVars, gen, lastAppGen,
                   fallbacks, appConnected, appClosed, optedOut, fbAfterConn, nullDeref,
                   appCloseError>>

\* ------------------------------------------------ set_timeout, lines 61-67
\* the application calls set_timeout on a socket it has connected: the timeout
\* is stored in FallbackInfo when there is one and handed to the proxy;
\* value() on an empty m_proxy_id throws into the application
SetTimeout(timeout) ==
    /\ Idle
    /\ lifecycle \in {"pending", "connected"}
    /\ m_fallback_info' = IF m_fallback_info.present
                          THEN [m_fallback_info EXCEPT !.timeout = timeout]
                          ELSE m_fallback_info
    /\ alive' = IF m_proxy_id = NoId THEN "crashed" ELSE alive
    /\ misaddressed' = (misaddressed
                        \/ (m_proxy_id # NoId /\ ~Registered(conns, m_proxy, m_proxy_id)))
    /\ UNCHANGED <<extVars, timeVars, closedAgain, m_proxy, m_proxy_id, cb_val, mtx, conns, pc, loc,
                   tVars, gen, lastAppGen, histVars, optedOut>>

\* send, lines 56-59: m_proxy_id.value() without a check, then m_proxy->send
Send ==
    /\ Idle
    /\ lifecycle = "connected"
    /\ alive' = IF m_proxy_id = NoId THEN "crashed" ELSE alive
    /\ misaddressed' = (misaddressed
                        \/ (m_proxy_id # NoId /\ ~Registered(conns, m_proxy, m_proxy_id)))
    /\ UNCHANGED <<extVars, timeVars, closedAgain, sockVars, cb_val, mtx, conns, pc, loc,
                   tVars, gen, lastAppGen, histVars, optedOut>>

\* get_fd, lines 20-22: nullopt without an id, else m_proxy->get_fd(id)
GetFd ==
    /\ Idle
    /\ misaddressed' = (misaddressed
                        \/ (m_proxy_id # NoId /\ ~Registered(conns, m_proxy, m_proxy_id)))
    /\ UNCHANGED <<extVars, timeVars, closedAgain, sockVars, cb_val, mtx, alive, conns, pc, loc,
                   tVars, gen, lastAppGen, histVars, optedOut>>

\* SteadyClock advances
Tick ==
    /\ now < MaxTime
    /\ now' = now + 1
    /\ UNCHANGED <<extVars, addrVars, origTimeout, origStamp, sockVars, cb_val, mtx, alive, conns,
                   pc, loc, tVars, gen, lastAppGen, histVars, optedOut>>

\* ------------------------------------------------ ~ProxiedSocket, lines 13-18
Destructor ==
    /\ Idle /\ tpc = "idle"
    /\ m_fallback_info' = NoInfo
    /\ conns' = IF m_proxy_id # NoId THEN CloseConnection(conns, m_proxy, m_proxy_id)
                ELSE conns
    /\ alive' = "destroyed"
    /\ closedAgain' = (closedAgain
                       \/ (m_proxy_id # NoId /\ ~Registered(conns, m_proxy, m_proxy_id)))
    /\ UNCHANGED <<extVars, timeVars, misaddressed, m_proxy, m_proxy_id, cb_val, mtx, pc, loc, tVars, gen, lastAppGen,
                   histVars, optedOut>>

\* ------------------------------------------------ proxy events
\* on_successful_proxy_connection, lines 98-101: forwarded, no state change
ProxySucceeded(c) ==
    /\ Idle
    /\ conns[c].st = "connecting" /\ conns[c].rep = "none"
    /\ conns' = [conns EXCEPT ![c].rep = "ok"]
    /\ UNCHANGED <<extVars, timeVars, addrVars, sockVars, cb_val, mtx, alive, pc, loc, tVars, gen, lastAppGen,
                   histVars, optedOut>>

\* on_proxy_connection_failed, lines 103-113; answer is NoProxy for
\* CloseConnection, or the proxy of Fallback{proxy}. Line 112 dereferences
\* m_fallback_info: when it is null the behaviour is undefined, and the process
\* either dies or goes on with the store lost.
OnProxyConnectionFailed(answer) ==
    /\ IF answer = NoProxy
       THEN UNCHANGED <<m_fallback_info, nullDeref, alive>>
       ELSE IF m_fallback_info.present
       THEN /\ m_fallback_info' = StoredFallback(m_fallback_info, answer)
            /\ UNCHANGED <<nullDeref, alive>>
       ELSE /\ nullDeref' = TRUE
            /\ alive' \in {"alive", "crashed"}
            /\ UNCHANGED m_fallback_info
    /\ UNCHANGED <<extVars, timeVars, addrVars, m_proxy, m_proxy_id, cb_val, mtx, tVars, gen, lastAppGen,
                   fallbacks, appConnected, appClosed, lifecycle, fbAfterConn, opened,
                   appCloseError, optedOut>>

\* the proxy reports the failure of a connection that is being established
ProxyFailed(c, answer) ==
    /\ Idle
    /\ conns[c].st = "connecting" /\ conns[c].rep = "none"
    /\ conns' = [conns EXCEPT ![c].rep = "failed", ![c].ans = answer]
    /\ OnProxyConnectionFailed(answer)
    /\ UNCHANGED <<pc, loc>>

\* the proxy reports a failure after it has reported on_connected
ProxyFailedLate(c, answer) ==
    /\ Idle
    /\ conns[c].st = "connected" /\ conns[c].rep # "failed"
    /\ conns' = [conns EXCEPT ![c].rep = "failed", ![c].ans = answer]
    /\ OnProxyConnectionFailed(answer)
    /\ UNCHANGED <<pc, loc>>

\* the proxy reports the failure from inside its connect call (line 33), before
\* connect has stored the id and created FallbackInfo (lines 45-51)
ProxyFailedInConnect(answer) ==
    /\ pc = "conn_proxy" /\ alive = "alive"
    /\ ~loc.reported
    /\ loc' = [loc EXCEPT !.reported = TRUE]
    /\ OnProxyConnectionFailed(answer)
    /\ UNCHANGED <<pc, conns>>

\* on_connected, lines 115-118: drop FallbackInfo, then go for the callbacks
OnConnectedBegin(c) ==
    /\ Idle
    /\ conns[c].st = "connecting" /\ conns[c].on_connected
    /\ conns' = [conns EXCEPT ![c].st = "connected"]
    /\ m_fallback_info' = InfoAfterConnected(m_fallback_info)
    /\ lifecycle' = "connected"
    /\ loc' = [Loc0 EXCEPT !.ev = c, !.exp = ExpectedGen]
    /\ pc' = "oc_get"
    /\ UNCHANGED <<extVars, timeVars, addrVars, m_proxy, m_proxy_id, cb_val, mtx, alive, tVars, gen, lastAppGen,
                   fallbacks, appConnected, appClosed, fbAfterConn, nullDeref, opened,
                   appCloseError, optedOut>>

\* the proxy holds no on_connected callback for c (set_callbacks, line 83):
\* the connection is established and nobody is told
SilentConnect(c) ==
    /\ Idle
    /\ conns[c].st = "connecting" /\ ~conns[c].on_connected
    /\ conns' = [conns EXCEPT ![c].st = "connected"]
    /\ UNCHANGED <<extVars, timeVars, addrVars, sockVars, cb_val, mtx, alive, pc, loc, tVars, gen, lastAppGen,
                   histVars, optedOut>>

\* on_read, lines 124-126
OnReadBegin(c) ==
    /\ Idle
    /\ conns[c].st = "connected" /\ conns[c].on_read
    /\ loc' = [Loc0 EXCEPT !.ev = c, !.exp = ExpectedGen]
    /\ pc' = "rd_get"
    /\ UNCHANGED <<extVars, timeVars, addrVars, sockVars, cb_val, mtx, alive, conns, tVars, gen, lastAppGen,
                   histVars, optedOut>>

\* on_close, lines 132-142: take FallbackInfo; when it names a fallback proxy,
\* close the current connection, switch m_proxy and read the clock (the timeout
\* of lines 150-152 is fixed from here on). value() on an empty m_proxy_id
\* throws out of the callback and ends the process.
OnCloseBegin(c, e) ==
    /\ Idle
    /\ conns[c].st \in {"connecting", "connected"} /\ conns[c].on_close
    /\ LET info == m_fallback_info
           closed == [conns EXCEPT ![c].st = "closed"]
       IN /\ m_fallback_info' = InfoAfterMove(m_fallback_info)
          /\ IF info.present /\ info.proxy # NoProxy
             THEN IF m_proxy_id = NoId
                  THEN /\ alive' = "crashed"
                       /\ conns' = closed
                       /\ UNCHANGED <<m_proxy, m_proxy_id, fallbacks, fbAfterConn, pc, loc,
                                      closedAgain>>
                  ELSE /\ conns' = CloseConnection(closed, m_proxy, m_proxy_id)
                       /\ closedAgain' = (closedAgain
                                          \/ ~Registered(closed, m_proxy, m_proxy_id))
                       /\ m_proxy_id' = ExchangedProxyId(m_proxy_id)
                       /\ m_proxy' = info.proxy
                       /\ fallbacks' = Inc(fallbacks)
                       /\ fbAfterConn' = (fbAfterConn \/ conns[c].st = "connected")
                       /\ loc' = [Loc0 EXCEPT
                                    !.ev = c, !.error = e, !.orig = e,
                                    !.info = info, !.fb = TRUE, !.exp = ExpectedGen,
                                    !.proxy0 = m_proxy,
                                    !.timeout = RemainingTimeout(info.timeout,
                                                    now - info.connect_timestamp)]
                       /\ pc' = "fb_snap"
                       /\ UNCHANGED alive
             ELSE /\ conns' = closed
                  /\ loc' = [Loc0 EXCEPT !.ev = c, !.error = e, !.orig = e,
                                         !.exp = ExpectedGen, !.proxy0 = m_proxy]
                  /\ pc' = "cl_get"
                  /\ UNCHANGED <<m_proxy, m_proxy_id, fallbacks, fbAfterConn, alive, closedAgain>>
    /\ UNCHANGED <<extVars, timeVars, misaddressed, cb_val, mtx, tVars, gen, lastAppGen, appConnected, appClosed,
                   lifecycle, nullDeref, opened, appCloseError, optedOut>>

\* the proxy holds no on_close callback for c (set_callbacks, line 85)
SilentClose(c) ==
    /\ Idle
    /\ conns[c].st \in {"connecting", "connected"} /\ ~conns[c].on_close
    /\ conns' = [conns EXCEPT ![c].st = "closed"]
    /\ UNCHANGED <<extVars, timeVars, addrVars, sockVars, cb_val, mtx, alive, pc, loc, tVars, gen, lastAppGen,
                   histVars, optedOut>>

\* on_close, lines 143-153: snapshot the callbacks under the mutex, unlock, and
\* call connect with the stored loop and peer (line 27 enters set_callbacks)
FallbackSnapshot ==
    /\ pc = "fb_snap" /\ alive = "alive"
    /\ mtx = "free"
    /\ mtx' = MutexAfterFallbackSnapshot
    /\ loc' = [loc EXCEPT !.peer = loc.info.peer, !.sc_arg = cb_val,
                          !.sc_ret = "connect", !.conn_ret = "fallback"]
    /\ pc' = "sc_lock"
    /\ UNCHANGED <<extVars, timeVars, addrVars, sockVars, cb_val, alive, conns, tVars, gen, lastAppGen, histVars,
                   optedOut>>

\* get_callbacks, lines 93-96, as called at lines 119, 127 and 160
GetCallbacks ==
    /\ pc \in {"oc_get", "rd_get", "cl_get"} /\ alive = "alive"
    /\ mtx = "free"
    /\ mtx' = MutexAfterSnapshot
    /\ loc' = [loc EXCEPT !.cbx = cb_val]
    /\ pc' = CASE pc = "oc_get" -> "oc_call"
               [] pc = "rd_get" -> "rd_call"
               [] pc = "cl_get" -> "cl_call"
    /\ UNCHANGED <<extVars, timeVars, addrVars, sockVars, cb_val, alive, conns, tVars, gen, lastAppGen, histVars,
                   optedOut>>

\* what the application callback does before it returns: "return", or a call of
\* set_callbacks on this socket with a new set of the given shape
Reentries == {"return"} \cup Shapes

AfterCallback(delivered, re) ==
    IF re = "return"
    THEN /\ pc' = "idle"
         /\ loc' = Loc0
         /\ UNCHANGED <<gen, optedOut>>
    ELSE /\ delivered
         /\ gen < MaxGen
         /\ gen' = gen + 1
         /\ optedOut' = (optedOut \/ re # "full")
         /\ loc' = [Loc0 EXCEPT !.sc_arg = MkCallbacks(re, gen + 1), !.sc_ret = "callback"]
         /\ pc' = "sc_lock"

\* on_connected, lines 119-121
CallConnected(re) ==
    /\ pc = "oc_call" /\ alive = "alive"
    /\ LET delivered == loc.cbx.on_connected # 0
       IN /\ appConnected' = IF delivered THEN Inc(appConnected) ELSE appConnected
          /\ AfterCallback(delivered, re)
    /\ UNCHANGED <<extVars, timeVars, addrVars, sockVars, cb_val, mtx, alive, conns, tVars, lastAppGen, fallbacks,
                   appClosed, lifecycle, fbAfterConn, nullDeref, opened, appCloseError>>

\* on_read, lines 127-129
CallRead(re) ==
    /\ pc = "rd_call" /\ alive = "alive"
    /\ AfterCallback(loc.cbx.on_read # 0, re)
    /\ UNCHANGED <<extVars, timeVars, addrVars, sockVars, cb_val, mtx, alive, conns, tVars, lastAppGen, histVars>>

\* on_close, lines 160-162
CallClose(re) ==
    /\ pc = "cl_call" /\ alive = "alive"
    /\ LET delivered == loc.cbx.on_close # 0
       IN /\ appClosed' = IF delivered THEN Inc(appClosed) ELSE appClosed
          /\ appCloseError' = IF delivered THEN PropagatedError(loc) ELSE appCloseError
          /\ AfterCallback(delivered, re)
    /\ lifecycle' = "closed"
    /\ UNCHANGED <<extVars, timeVars, addrVars, sockVars, cb_val, mtx, alive, conns, tVars, lastAppGen,
                   fallbacks, appConnected, fbAfterConn, nullDeref, opened>>

\* ------------------------------------------------ specifications
LoopStep ==
    \/ ScLock \/ ScWrite \/ ScProxy
    \/ \E ok \in BOOLEAN : ConnProxy(ok)
    \/ FallbackSnapshot
    \/ GetCallbacks
    \/ \E re \in Reentries : CallConnected(re)
    \/ \E re \in Reentries : CallRead(re)
    \/ \E re \in Reentries : CallClose(re)

ThreadStep ==
    \/ \E shape \in Shapes : TScLock(shape)
    \/ TScWrite
    \/ TScProxy
    \/ TScCall

ProxyReport(c) ==
    \/ ProxySucceeded(c)
    \/ \E answer \in {NoProxy} \cup Proxies : ProxyFailed(c, answer)
    \/ OnReadBegin(c)

\* the outcome the proxy owes every connection it accepted
ProxyOutcome(c) ==
    \/ OnConnectedBegin(c)
    \/ SilentConnect(c)
    \/ \E e \in CloseErrors : OnCloseBegin(c, e)
    \/ SilentClose(c)

Next ==
    \/ AppConnect
    \/ \E timeout \in 0..MaxTimeout : SetTimeout(timeout)
    \/ Send
    \/ GetFd
    \/ LoopStep
    \/ ThreadStep
    \/ \E c \in ConnIds : ProxyReport(c)
    \/ \E c \in ConnIds : ProxyOutcome(c)
    \/ Destructor

\* a socket that is connected once
Spec == Init /\ [][Next]_vars

\* a socket on which the application may call connect again
NextReconnect == Next \/ AppConnectAgain
SpecReconnect == Init /\ [][NextReconnect]_vars

\* a socket that is connected once, on a proxy that may report a failure at
\* any point: inside its connect call and after on_connected as well
NextAnyReport ==
    \/ Next
    \/ \E c \in ConnIds, answer \in {NoProxy} \cup Proxies : ProxyFailedLate(c, answer)
    \/ \E answer \in {NoProxy} \cup Proxies : ProxyFailedInConnect(answer)
SpecAnyReport == Init /\ [][NextAnyReport]_vars

\* a socket that is connected once, with the clock running
NextTimed == Next \/ Tick
SpecTimed == Init /\ [][NextTimed]_vars

\* one Upstream, constructed and then used by several threads
NextUpstream ==
    \/ UpstreamCtor
    \/ \E t \in UThreads, elapsed \in ElapsedValues : AdjustRttCall(t, elapsed)
    \/ \E t \in UThreads : AdjustRttLock(t)
    \/ \E t \in UThreads : AdjustRttRead(t)
    \/ \E t \in UThreads : AdjustRttWrite(t)
    \/ \E t \in UThreads : RttCall(t)
    \/ \E t \in UThreads : RttLock(t)
    \/ \E t \in UThreads : RttRead(t)

InitUpstream == SocketInit /\ UpstreamInit /\ Dns64Idle
SpecUpstream == InitUpstream /\ [][NextUpstream]_vars

\* DNS64 synthesis applied to prefixes and addresses of the ranges
NextDns64 == Synthesize \/ NextInput
InitDns64 == SocketInit /\ UpstreamIdle /\ Dns64Init
SpecDns64 == InitDns64 /\ [][NextDns64]_vars

\* ------------------------------------------------ side conditions of Spec
\* On a socket connected once, line 112 never meets a null FallbackInfo, and
\* the process dies only of the unguarded read of m_proxy_id at lines 78-79.
NoNullFallbackInfo == ~nullDeref /\ (alive = "crashed" => tpc = "sc_call")

\* Every snapshot of the callbacks is one complete set, never a mix of two.
SnapshotsComplete ==
    /\ pc \in {"oc_call", "rd_call", "cl_call"} =>
          \A h \in {loc.cbx.on_connected, loc.cbx.on_read, loc.cbx.on_close} :
              h \in {0, loc.cbx.arg}
    /\ pc = "sc_lock" =>
          \A h \in {loc.sc_arg.on_connected, loc.sc_arg.on_read, loc.sc_arg.on_close} :
              h \in {0, loc.sc_arg.arg}

\* ------------------------------------------------ claims

\* C1: fallback fires at most once per ProxiedSocket: on_close performs the
\* switch-proxy-and-reconnect step at most one time during the life of the socket.
C1_FallbackAtMostOnce == fallbacks <= 1

\* C2: the application's on_connected is never invoked after the application's
\* on_close has been invoked.
C2_NoConnectedAfterClose == [][appClosed > 0 => appConnected' = appConnected]_vars

C2_Witness == appClosed > 0 /\ appConnected > 0 /\ fallbacks > 0

\* the event loop thread is inside on_close (lines 132-163), the re-connect included
InOnClose == pc \in {"fb_snap", "cl_get", "cl_call"} \/ loc.conn_ret = "fallback"

\* C3: m_fallback_info is non-null if and only if a connect has returned success
\* and neither on_connected nor an on_close has since been processed for that
\* connection (on_close takes it when it starts and only a successful re-connect
\* creates it again).
C3_FallbackInfoLifetime ==
    alive = "alive" =>
        (m_fallback_info.present <=> (lifecycle = "pending" /\ ~InOnClose))

C3_Witness ==
    /\ m_fallback_info.present /\ fallbacks > 0
    /\ m_fallback_info.proxy # NoProxy

\* C4: once the proxy connection has become connected no fallback can occur,
\* whichever handlers the application registered through set_callbacks.
C4_NoFallbackAfterConnected == ~fbAfterConn

\* C5: at most one proxy connection opened by the socket is live (registered with
\* a proxy and not yet closed through close_connection) at any time, also over
\* repeated connect calls.
C5_AtMostOneLive == Cardinality(Live(conns)) <= 1

\* C6 as stated: m_proxy_id is present if and only if a connection has been
\* requested and has not yet been closed; it is absent after an on_close that
\* was propagated to the application.
C6_AbsentOnceClosed ==
    (alive = "alive" /\ pc = "idle") =>
        ((m_proxy_id # NoId) <=> lifecycle \in {"pending", "connected"})

\* C6 amended: m_proxy_id is present if and only if a connect has returned
\* success and the connection it opened has not yet been closed through
\* close_connection, and then it is that connection's id.
C6_PresentUntilCloseConnection ==
    alive = "alive" =>
        /\ (m_proxy_id # NoId) <=> (opened # NoId /\ conns[opened].st # "free")
        /\ m_proxy_id # NoId => m_proxy_id = opened

\* m_proxy_id outlives the propagated on_close; a failed re-connect leaves it empty
C6_Witness ==
    /\ lifecycle = "closed" /\ pc = "idle" /\ alive = "alive"
    /\ m_proxy_id # NoId /\ conns[m_proxy_id].st = "closed"

\* C7: transparent fallback. While on_close falls back, the re-connect goes
\* through the proxy the application answered with; and when the on_connected of
\* a connection opened by the fallback is handed to the application, it is the
\* first on_connected the application sees and no on_close has been delivered;
\* a socket that has fallen back never sees a second on_connected.
C7_TransparentFallback ==
    [][/\ (loc.fb => m_proxy = loc.info.proxy)
       /\ (fallbacks > 0 => appConnected' <= 1)
       /\ (/\ pc = "oc_call" /\ pc' # "oc_call"
           /\ loc.cbx.on_connected # 0
           /\ conns[loc.ev].via = "fallback")
          => (appConnected = 0 /\ appConnected' = 1 /\ appClosed = 0)]_vars

C7_Witness ==
    /\ fallbacks = 1 /\ appConnected = 1 /\ appClosed = 0
    /\ lifecycle = "connected" /\ pc = "idle"
    /\ \E c \in ConnIds : conns[c].st = "connected" /\ conns[c].via = "fallback"
                          /\ conns[c].proxy = "P1" /\ conns[c].rep = "none"

\* C8 (liveness): after connect has returned success the application is
\* eventually given on_connected or on_close, unless it destroyed the socket or
\* supplied a callback set lacking one of the two handlers; as long as no
\* connect has returned success it is given neither.
C8_ConnectOutcome ==
    /\ (lifecycle = "pending" /\ pc = "idle")
          ~> (appConnected > 0 \/ appClosed > 0 \/ alive # "alive" \/ optedOut)
    /\ [](lifecycle = "none" => (appConnected = 0 /\ appClosed = 0))

\* a snapshot holds one complete callback set
Complete(cbx) ==
    \A h \in {cbx.on_connected, cbx.on_read, cbx.on_close} : h \in {0, cbx.arg}

\* C9: every dispatched event is delivered to one complete callback set, and an
\* event whose dispatch started after set_callbacks had returned is delivered to
\* that set or a later one; so are the callbacks handed to the re-connect.
C9_DeliveredToNewSet ==
    /\ pc \in {"oc_call", "rd_call", "cl_call"} =>
          /\ Complete(loc.cbx)
          /\ loc.exp # 0 => loc.cbx.arg >= loc.exp
    /\ (pc = "sc_lock" /\ loc.conn_ret = "fallback") =>
          /\ Complete(loc.sc_arg)
          /\ loc.exp # 0 => loc.sc_arg.arg >= loc.exp

\* C10: the event loop thread holds m_socket_callbacks.mtx only inside
\* set_callbacks, between lines 74 and 76: never while an application callback
\* runs, never on entry to the re-connect, never when it is about to lock.
C10_MutexReleasedBeforeCallbacks == mtx = "L" => pc = "sc_write"

\* an application callback has called set_callbacks and taken the mutex
C10_Witness == pc = "sc_write" /\ loc.sc_ret = "callback" /\ mtx = "L"

\* ------------------------------------------------ claims on the socket, continued

\* C16: the timeout on_close hands to the re-connect is
\* max(0, original_timeout - (now - connect_timestamp)) for the timeout and the
\* timestamp of the application's connect: it is not negative, not larger than
\* the original timeout, the new deadline is not later than the original one,
\* and it is absent when the original connect had no timeout.
C16_RemainingBudget ==
    [][(pc = "idle" /\ pc' = "fb_snap") =>
          LET remaining == loc'.timeout
              left == origTimeout - (now - origStamp)
          IN IF origTimeout = NoTimeout
             THEN remaining = NoTimeout
             ELSE /\ remaining = IF left > 0 THEN left ELSE 0
                  /\ remaining >= 0
                  /\ remaining <= origTimeout
                  /\ now + remaining <= origStamp + origTimeout]_vars

\* C17: on_close hands the close event to the application's on_close handler
\* once (when the callback set holds one). After a fallback whose re-connect
\* failed the handler receives the error the re-connect returned, not the
\* proxy's; on_close ends without calling it only when the re-connect
\* succeeded. Without a fallback attempt it receives the proxy's error and
\* m_proxy is what it was.
C17_CloseErrorPropagated ==
    [][/\ (pc = "cl_call" /\ pc' # "cl_call") =>
             /\ loc.cbx.on_close # 0 =>
                   /\ appClosed' = appClosed + 1
                   /\ appCloseError' = IF loc.fb THEN loc.reconn ELSE loc.orig
             /\ loc.fb => loc.reconn \in {ConnectError, SetCallbacksError}
             /\ ~loc.fb => m_proxy = loc.proxy0
       /\ appClosed' # appClosed => pc = "cl_call"
       /\ (loc.fb /\ pc # "cl_call" /\ pc' = "idle") =>
             (m_proxy_id' # NoId /\ m_fallback_info'.present)]_vars

\* the error of a failed re-connect has reached the application
C17_Witness ==
    /\ appClosed = 1 /\ appCloseError = ConnectError /\ fallbacks = 1
    /\ pc = "idle" /\ m_proxy = "P1" /\ m_proxy_id = NoId

\* C18: a proxy failure report alone switches and closes nothing. When the
\* application answers CloseConnection the socket is left as it was; when it
\* answers Fallback{proxy} only FallbackInfo.proxy changes; m_proxy changes only
\* when a later on_close applies the stored fallback. A proxy success report
\* changes nothing.
C18_ReportsChangeNothingElse ==
    [][/\ \A c \in ConnIds :
             (conns[c].rep = "none" /\ conns'[c].rep = "failed") =>
                 /\ <<m_proxy, m_proxy_id, cb_val, mtx, alive, fallbacks>>'
                        = <<m_proxy, m_proxy_id, cb_val, mtx, alive, fallbacks>>
                 /\ \A d \in ConnIds : /\ conns'[d].st = conns[d].st
                                       /\ conns'[d].proxy = conns[d].proxy
                 /\ conns'[c].ans = NoProxy => m_fallback_info' = m_fallback_info
                 /\ conns'[c].ans # NoProxy =>
                       /\ m_fallback_info.present
                       /\ m_fallback_info'
                              = [m_fallback_info EXCEPT !.proxy = conns'[c].ans]
       /\ \A c \in ConnIds :
             (conns[c].rep = "none" /\ conns'[c].rep = "ok") =>
                 /\ <<m_proxy, m_proxy_id, m_fallback_info, cb_val, mtx, alive>>'
                        = <<m_proxy, m_proxy_id, m_fallback_info, cb_val, mtx, alive>>
                 /\ \A d \in ConnIds : /\ conns'[d].st = conns[d].st
                                       /\ conns'[d].proxy = conns[d].proxy
       /\ m_proxy' # m_proxy =>
             /\ pc = "idle" /\ pc' = "fb_snap"
             /\ m_fallback_info.present /\ m_proxy' = m_fallback_info.proxy]_vars

\* a fallback proxy is stored and nothing else has happened yet
C18_Witness ==
    /\ pc = "idle" /\ m_proxy = "P0" /\ m_proxy_id # NoId
    /\ m_fallback_info.present /\ m_fallback_info.proxy = "P1"
    /\ conns[m_proxy_id].st = "connecting" /\ conns[m_proxy_id].rep = "failed"
    /\ fallbacks = 0

\* C19: whenever on_proxy_connection_failed is dispatched and the application
\* answers Fallback{proxy}, m_fallback_info is non-null: line 112 never
\* dereferences an absent FallbackInfo, whether the proxy reports the failure
\* inside its connect call, in the pre-connected phase, after on_connected or
\* after a fallback.
C19_FallbackInfoPresentOnFailure == ~nullDeref

\* the id the socket holds was issued by the proxy m_proxy names and is not
\* closed on it yet
IdOnHeldProxy ==
    (alive = "alive" /\ m_proxy_id # NoId) => Registered(conns, m_proxy, m_proxy_id)

\* the destructor leaves no connection of the socket open
NothingOpenAfterDestructor == (alive = "destroyed") => (Live(conns) = {})

\* the calls the event loop thread makes are addressed to the issuing proxy, and
\* no id is closed twice
LoopCallsAddressed == IdOnHeldProxy /\ ~closedAgain

\* C20: in every reachable state m_proxy_id, when present, identifies a
\* connection opened on the proxy currently held in m_proxy, so that send,
\* set_timeout, set_callbacks, get_fd and close_connection always go to the proxy
\* that issued the id, also across the proxy switch of a fallback;
\* close_connection is called at most once for each id the socket obtained, and
\* after the destructor no connection opened by the socket remains open.
C20_IdAddressedToIssuingProxy ==
    /\ IdOnHeldProxy
    /\ ~misaddressed
    /\ ~closedAgain
    /\ NothingOpenAfterDestructor

\* ------------------------------------------------ claims on Upstream

\* new is sum / 2 with the quotient truncated toward zero
IsHalfOf(new, sum) ==
    \/ 2 * new = sum
    \/ sum > 0 /\ 2 * new = sum - 1
    \/ sum < 0 /\ 2 * new = sum + 1

Between(x, a, b) ==
    /\ (IF a <= b THEN a ELSE b) <= x
    /\ x <= (IF a <= b THEN b ELSE a)

\* C11: adjust_rtt(elapsed) replaces the RTT by (old + elapsed) / 2 in integer
\* division, which lies between min(old, elapsed) and max(old, elapsed), for
\* every old RTT and every elapsed value of the range; a newly constructed
\* Upstream has RTT 0.
C11_AdjustRttBounded ==
    [][/\ \A t \in UThreads :
             (upc[t] = "adj_write" /\ upc'[t] = "idle") =>
                 /\ IsHalfOf(m_rtt', m_rtt + uloc[t].elapsed)
                 /\ Between(m_rtt', m_rtt, uloc[t].elapsed)
       /\ \A old \in ElapsedValues, elapsed \in ElapsedValues :
             /\ IsHalfOf(AdjustedRtt(old, elapsed), old + elapsed)
             /\ Between(AdjustedRtt(old, elapsed), old, elapsed)
       /\ (m_options = NoOptions /\ m_options' # NoOptions) => m_rtt' = 0]_vars

\* an odd negative sum has been halved: -1 / 2 is 0, not -1
C11_Witness ==
    /\ calls = <<0 - 1>> /\ m_rtt = 0
    /\ \E t \in UThreads : upc[t] = "idle" /\ uloc[t].elapsed = 0 - 1

\* a thread is between lock and unlock of m_rtt_guard
InRttSection(t) == upc[t] \in {"adj_read", "adj_write", "rtt_read"}

\* the RTT after adjust_rtt has been called with these elapsed values in turn
RECURSIVE RttAfter(_)
RttAfter(es) ==
    IF es = <<>> THEN 0
    ELSE AdjustedRtt(RttAfter(SubSeq(es, 1, Len(es) - 1)), es[Len(es)])

\* the ways of putting k of the first n calls one after another
Arrangements(n, k) ==
    {f \in [1..k -> 1..n] : \A i, j \in 1..k : i # j => f[i] # f[j]}

\* C12: m_rtt_guard serializes updates and reads. Whenever no adjust_rtt is in
\* progress the RTT is what the calls made so far give when applied one after
\* another in some order; a value rtt() returned is what some of the calls give
\* when applied one after another; two threads are never both between lock and
\* unlock.
C12_RttSerialized ==
    /\ (\A t \in UThreads : upc[t] \notin {"adj_lock", "adj_read", "adj_write"}) =>
          \E f \in Arrangements(Len(calls), Len(calls)) :
              m_rtt = RttAfter([i \in 1..Len(calls) |-> calls[f[i]]])
    /\ \A t \in UThreads :
          uloc[t].ret # NoMillis =>
              \E k \in 0..Len(calls) : \E f \in Arrangements(Len(calls), k) :
                  uloc[t].ret = RttAfter([i \in 1..k |-> calls[f[i]]])
    /\ \A t, u \in UThreads : (InRttSection(t) /\ InRttSection(u)) => t = u

\* two updates whose order matters are done, and a thread has read the RTT
\* between them
C12_Witness ==
    /\ Len(calls) = 2 /\ calls[1] # calls[2]
    /\ \A t \in UThreads : upc[t] = "idle"
    /\ \E t \in UThreads : uloc[t].ret \notin {NoMillis, 0, m_rtt}

\* C13: a timeout of 0 in the options becomes 5000 ms, any other timeout is
\* kept, and every other option field is left as supplied.
C13_DefaultTimeout ==
    m_options # NoOptions =>
        /\ opts.timeout = 0 => m_options.timeout = 5000
        /\ opts.timeout # 0 => m_options.timeout = opts.timeout
        /\ \A field \in DOMAIN opts \ {"timeout"} : m_options[field] = opts[field]

C13_Witness ==
    /\ m_options # NoOptions /\ opts.timeout = 0
    /\ opts.ignore_proxy_settings /\ m_options.ignore_proxy_settings

\* ------------------------------------------------ claims on DNS64 synthesis

\* the 16 bytes of a result, in order
AsSequence(value) == [k \in 1..16 |-> value[k - 1]]

\* TEST(Dns64Test, TestIpv6Synthesis), dns64_test.cpp lines 47-77: the results
\* the test expects are the results of the synthesis as modelled
TestIpv6Synthesis ==
    LET ip4 == <<1, 2, 3, 4>>
        pref == <<5, 5, 5, 5, 5, 5, 5, 5, 0, 5, 5, 5>>
        result(len) == SynthesizeIpv4EmbeddedIpv6Address(SubSeq(pref, 1, len), ip4)
    IN /\ AsSequence(result(4).value) = <<5, 5, 5, 5, 1, 2, 3, 4, 0, 0, 0, 0, 0, 0, 0, 0>>
       /\ AsSequence(result(5).value) = <<5, 5, 5, 5, 5, 1, 2, 3, 0, 4, 0, 0, 0, 0, 0, 0>>
       /\ AsSequence(result(6).value) = <<5, 5, 5, 5, 5, 5, 1, 2, 0, 3, 4, 0, 0, 0, 0, 0>>
       /\ AsSequence(result(7).value) = <<5, 5, 5, 5, 5, 5, 5, 1, 0, 2, 3, 4, 0, 0, 0, 0>>
       /\ AsSequence(result(8).value) = <<5, 5, 5, 5, 5, 5, 5, 5, 0, 1, 2, 3, 4, 0, 0, 0>>
       /\ AsSequence(result(12).value) = <<5, 5, 5, 5, 5, 5, 5, 5, 0, 5, 5, 5, 1, 2, 3, 4>>
       /\ result(10).error # "none"


\* the i-th (i = 0..3) of the byte positions from len on, index 8 left out
PositionAfter(len, i) ==
    LET open == {k \in len..16 : k # 8}
    IN CHOOSE p \in open : Cardinality({q \in open : q < p}) = i

\* bytes [0, len) are the prefix, the next four positions hold the IPv4 octets,
\* every other byte but byte 8 is 0
LayoutBut8(pref, ip4, value) ==
    LET len == Len(pref)
        octets == {PositionAfter(len, i) : i \in 0..3}
    IN /\ DOMAIN value = Bytes16
       /\ \A k \in 0..(len - 1) : value[k] = pref[k + 1]
       /\ \A i \in 0..3 : value[PositionAfter(len, i)] = ip4[i + 1]
       /\ \A k \in Bytes16 : (k >= len /\ k \notin octets /\ k # 8) => value[k] = 0

C15_InvalidLengthRejected ==
    (synth # NoResult /\ Len(pref64) \notin {4, 5, 6, 7, 8, 12}) =>
        /\ synth.error = "InvalidArgument"
        /\ synth.value = <<>>

C15_Witness == Len(pref64) = 10 /\ synth.error = "InvalidArgument"

\* ------------------------------------------------ liveness
\* The event loop runs the handler it is in to its end, the application thread
\* finishes its set_callbacks, and a proxy reports on_connected or on_close for
\* every connection it accepted.
ProxyResolves(c) == conns[c].st = "connecting" /\ ProxyOutcome(c)

Fairness ==
    /\ WF_vars(LoopStep)
    /\ WF_vars(ThreadStep)
    /\ \A c \in ConnIds : SF_vars(ProxyResolves(c))

SpecLive == Init /\ [][Next]_vars /\ Fairness

\* C8 with the fallback chain cut: the outcome arrives or the socket falls back
\* a second time
OutcomeOrSecondFallback ==
    (lifecycle = "pending" /\ pc = "idle")
        ~> (appConnected > 0 \/ appClosed > 0 \/ alive # "alive" \/ optedOut
            \/ fallbacks >= 2)

====
